---- MODULE Spec2Model ----
(***************************************************************************)
(* A model of the Nerdle equations generator (0.equations_generator.ipynb): *)
(* gen_patterns, solve_expression, solve_result and gen_equations.          *)
(*                                                                         *)
(* A Python string is a sequence of one-character strings, so "16+4" is    *)
(* <<"1","6","+","4">>.  Python's list indices start at 0 and TLA+'s at 1:  *)
(* the loop indices below are the Python ones, and At(list, i) reads        *)
(* list[i].                                                                 *)
(***************************************************************************)
EXTENDS Integers, Sequences, FiniteSets, TLC

(***************************************************************************)
(* Bounds of the model.                                                    *)
(***************************************************************************)
\* The candidates of gen_equations are drawn from the digits '0' and
\* '1'..MaxDigitMini for the mode of 6 elements, '0' and '1'..MaxDigitRegular
\* for the mode of 8 (the notebook's alphabets hold '1'..'9' and '0').
MaxDigitMini == 4
MaxDigitRegular == 1
\* The strings solve_expression and solve_result are called with: those of
\* 1..MaxLen characters over the operators and the digits '0'..MaxInputDigit,
MaxLen == 4
MaxInputDigit == 2
\* the expressions a/b*c for a, b in 1..MaxOperand and c in 1..MaxFactor, and
\* those of the notebook's test cases.
MaxOperand == 9
MaxFactor == 27
\* The expressions of the patterns solve_expression is called with are those
\* over the operators and the digits '0' and '1'..MaxExpressionDigit.
MaxExpressionDigit == 2
\* The run over the alphabets with all the digits takes the iterations of the
\* loop over the candidates MaxBurst at a time at most.
MaxBurst == 30

(***************************************************************************)
(* Characters.                                                             *)
(***************************************************************************)
DigitChars == {"0", "1", "2", "3", "4", "5", "6", "7", "8", "9"}

DigitValue ==
    ("0" :> 0) @@ ("1" :> 1) @@ ("2" :> 2) @@ ("3" :> 3) @@ ("4" :> 4) @@
    ("5" :> 5) @@ ("6" :> 6) @@ ("7" :> 7) @@ ("8" :> 8) @@ ("9" :> 9)

DigitChar == <<"0", "1", "2", "3", "4", "5", "6", "7", "8", "9">>

\* The characters of the regular expression's class [+,\-,*,\/]
OperatorClass == {"+", ",", "-", "*", "/"}

\* list[i], i a Python index
At(list, i) == list[i + 1]

\* list.pop(i)
Pop(list, i) == SubSeq(list, 1, i) \o SubSeq(list, i + 2, Len(list))

\* list.insert(i, x)
Insert(list, i, x) == SubSeq(list, 1, i) \o <<x>> \o SubSeq(list, i + 1, Len(list))

\* x in list
Contains(list, x) == \E k \in 1..Len(list) : list[k] = x

\* str.isnumeric(): not empty, and every character a digit
IsNumeric(str) == Len(str) > 0 /\ \A k \in 1..Len(str) : str[k] \in DigitChars

\* list(str): the list of the one-character strings of str
ListOf(str) == [k \in 1..Len(str) |-> <<str[k]>>]

(***************************************************************************)
(* The values solve_expression and solve_result return: an int, None, or   *)
(* the exception that left the function.                                   *)
(***************************************************************************)
None == [k |-> "None", v |-> 0]
IntObj(n) == [k |-> "int", v |-> n]
Raised(e) == [k |-> e, v |-> 0]
Exceptions == {"IndexError", "TypeError", "ZeroDivisionError", "ValueError", "NotModelled"}
IsRaised(r) == r.k \in Exceptions

(***************************************************************************)
(* Python's float, an IEEE 754 double: sign s (0 for zero), the 53 bits m  *)
(* of the significand, most significant first, and the exponent e of the   *)
(* last bit: the value is s * m * 2^e.  Every operation computes the exact *)
(* result and rounds it to nearest, ties to even.  No value of the model   *)
(* comes near the exponent's limits.                                       *)
(***************************************************************************)
Precision == 53

Abs(n) == IF n < 0 THEN -n ELSE n
Sign(n) == IF n < 0 THEN -1 ELSE IF n = 0 THEN 0 ELSE 1

Zeros(n) == [k \in 1..n |-> 0]

\* bits without its leading zeros
Strip(bits) ==
    IF \A k \in 1..Len(bits) : bits[k] = 0 THEN <<>>
    ELSE LET first == CHOOSE k \in 1..Len(bits) :
                          bits[k] = 1 /\ \A j \in 1..(k - 1) : bits[j] = 0
         IN  SubSeq(bits, first, Len(bits))

\* The binary digits of n, 0 <= n < 2^31, most significant first (none for 0)
BitsOf(n) == Strip([k \in 1..31 |-> (n \div (2 ^ (31 - k))) % 2])

\* The carries of the long operations run over limbs of LimbBits bits. The
\* divisors and factors are the operands of an expression and stay below
\* 2^24, so that no step leaves TLC's 32-bit integers.
LimbBits == 6
Radix == 2 ^ LimbBits

\* bits as limbs, most significant first
Limbs(bits) ==
    LET n == (Len(bits) + LimbBits - 1) \div LimbBits
        padded == Zeros(n * LimbBits - Len(bits)) \o bits
    IN  [j \in 1..n |->
            LET at(t) == padded[LimbBits * (j - 1) + t]
            IN  32 * at(1) + 16 * at(2) + 8 * at(3) + 4 * at(4) + 2 * at(5) + at(6)]

\* The bits of limbs, LimbBits for each
LimbsToBits(limbs) ==
    [k \in 1..(LimbBits * Len(limbs)) |->
        (limbs[((k - 1) \div LimbBits) + 1] \div (2 ^ (LimbBits - 1 - ((k - 1) % LimbBits)))) % 2]

\* The number that bits writes (below 2^31)
RECURSIVE LimbsValue(_, _, _)
LimbsValue(limbs, j, acc) ==
    IF j > Len(limbs) THEN acc ELSE LimbsValue(limbs, j + 1, Radix * acc + limbs[j])

BitsValue(bits) == LimbsValue(Limbs(bits), 1, 0)

\* bits + 1: of the same length, or one longer when every bit is 1
Increment(bits) ==
    IF \A k \in 1..Len(bits) : bits[k] = 1 THEN <<1>> \o Zeros(Len(bits))
    ELSE LET last == CHOOSE k \in 1..Len(bits) :
                         bits[k] = 0 /\ \A j \in (k + 1)..Len(bits) : bits[j] = 1
         IN  [k \in 1..Len(bits) |->
                 IF k < last THEN bits[k] ELSE IF k = last THEN 1 ELSE 0]

FloatZero == [s |-> 0, m |-> Zeros(Precision), e |-> 0]

\* The double nearest to s * bits * 2^e (bits has no leading zero), where
\* sticky says that the exact value is a little more than bits writes
RoundToDouble(s, bits, e, sticky) ==
    LET L == Len(bits)
    IN  IF L = 0 THEN FloatZero
        ELSE IF L <= Precision
        THEN [s |-> s, m |-> bits \o Zeros(Precision - L), e |-> e - (Precision - L)]
        ELSE LET keep == SubSeq(bits, 1, Precision)
                 guard == bits[Precision + 1]
                 rest == sticky \/ \E k \in (Precision + 2)..L : bits[k] = 1
                 up == guard = 1 /\ (rest \/ keep[Precision] = 1)
                 inc == Increment(keep)
             IN  IF ~up THEN [s |-> s, m |-> keep, e |-> e + (L - Precision)]
                 ELSE IF Len(inc) > Precision
                 THEN [s |-> s, m |-> SubSeq(inc, 1, Precision), e |-> e + (L - Precision) + 1]
                 ELSE [s |-> s, m |-> inc, e |-> e + (L - Precision)]

\* float(n)
IntToFloat(n) == RoundToDouble(Sign(n), BitsOf(Abs(n)), 0, FALSE)

\* Long division of limbs by d > 0 from limb j on: the quotient's limbs q and
\* the remainder r
RECURSIVE LongDivision(_, _, _, _, _)
LongDivision(limbs, j, d, r, q) ==
    IF j > Len(limbs) THEN [q |-> q, r |-> r]
    ELSE LET t == Radix * r + limbs[j]
         IN  LongDivision(limbs, j + 1, d, t % d, Append(q, t \div d))

\* x / d for a double x and an int d # 0
FloatDivInt(x, d) ==
    IF x.s = 0 THEN FloatZero
    ELSE LET extra == Len(BitsOf(Abs(d))) + 2
             res == LongDivision(Limbs(x.m \o Zeros(extra)), 1, Abs(d), 0, <<>>)
         IN  RoundToDouble(x.s * Sign(d), Strip(LimbsToBits(res.q)), x.e - extra, res.r # 0)

\* limbs * c for c > 0, from the last limb j back to the first
RECURSIVE Multiplication(_, _, _, _, _)
Multiplication(limbs, j, c, carry, out) ==
    IF j = 0 THEN BitsOf(carry) \o LimbsToBits(out)
    ELSE LET t == limbs[j] * c + carry
         IN  Multiplication(limbs, j - 1, c, t \div Radix, <<t % Radix>> \o out)

\* x * c for a double x and an int c
FloatMulInt(x, c) ==
    IF x.s = 0 \/ c = 0 THEN FloatZero
    ELSE LET limbs == Limbs(x.m)
         IN  RoundToDouble(x.s * Sign(c),
                           Strip(Multiplication(limbs, Len(limbs), Abs(c), 0, <<>>)),
                           x.e, FALSE)

\* a + b for limb sequences of one length
RECURSIVE Addition(_, _, _, _, _)
Addition(a, b, j, carry, out) ==
    IF j = 0 THEN BitsOf(carry) \o LimbsToBits(out)
    ELSE LET t == a[j] + b[j] + carry
         IN  Addition(a, b, j - 1, t \div Radix, <<t % Radix>> \o out)

\* a - b for limb sequences of one length, a >= b
RECURSIVE Subtraction(_, _, _, _, _)
Subtraction(a, b, j, borrow, out) ==
    IF j = 0 THEN LimbsToBits(out)
    ELSE LET t == a[j] - b[j] - borrow
         IN  Subtraction(a, b, j - 1, IF t < 0 THEN 1 ELSE 0,
                         <<(t + Radix) % Radix>> \o out)

\* a < b for bit sequences of one length
BitsLess(a, b) ==
    \E k \in 1..Len(a) : a[k] < b[k] /\ \A j \in 1..(k - 1) : a[j] = b[j]

\* x + y for doubles
FloatAdd(x, y) ==
    IF x.s = 0 THEN y
    ELSE IF y.s = 0 THEN x
    ELSE LET e0 == IF x.e < y.e THEN x.e ELSE y.e
             xa == x.m \o Zeros(x.e - e0)
             ya == y.m \o Zeros(y.e - e0)
             L == IF Len(xa) > Len(ya) THEN Len(xa) ELSE Len(ya)
             a == Zeros(L - Len(xa)) \o xa
             b == Zeros(L - Len(ya)) \o ya
             la == Limbs(a)
             lb == Limbs(b)
             n == Len(la)
         IN  IF x.s = y.s
             THEN RoundToDouble(x.s, Strip(Addition(la, lb, n, 0, <<>>)), e0, FALSE)
             ELSE IF a = b THEN FloatZero
             ELSE IF BitsLess(a, b)
             THEN RoundToDouble(y.s, Strip(Subtraction(lb, la, n, 0, <<>>)), e0, FALSE)
             ELSE RoundToDouble(x.s, Strip(Subtraction(la, lb, n, 0, <<>>)), e0, FALSE)

\* x % 1 == 0 for a double x
FloatIsWhole(x) ==
    \/ x.s = 0
    \/ x.e >= 0
    \/ /\ -x.e < Precision
       /\ \A k \in (Precision + x.e + 1)..Precision : x.m[k] = 0

\* int(x) for a double x: x truncated toward zero
FloatToInt(x) ==
    IF x.s = 0 \/ -x.e >= Precision THEN 0
    ELSE IF x.e >= 0 THEN x.s * BitsValue(x.m \o Zeros(x.e))
    ELSE x.s * BitsValue(SubSeq(x.m, 1, Precision + x.e))

(***************************************************************************)
(* The elements of the list solve_expression works on: a str (a sequence   *)
(* of characters), an int or a float.                                      *)
(***************************************************************************)
StrObj(str) == [k |-> "str", v |-> str]
FloatObj(x) == [k |-> "float", v |-> x]
IsNumber(obj) == obj.k \in {"int", "float"}
AsFloat(obj) == IF obj.k = "int" THEN IntToFloat(obj.v) ELSE obj.v
IsZero(obj) == IF obj.k = "int" THEN obj.v = 0 ELSE obj.v.s = 0

\* str * n: the string repeated n times
RECURSIVE Repeat(_, _)
Repeat(str, n) == IF n <= 0 \/ str = <<>> THEN <<>> ELSE str \o Repeat(str, n - 1)

\* A mutant of TrueDiv: a // b, the floor division of two ints
FloorDiv(a, b) ==
    IF ~IsNumber(a) \/ ~IsNumber(b) THEN Raised("TypeError")
    ELSE IF IsZero(b) THEN Raised("ZeroDivisionError")
    ELSE IF a.k = "float" \/ b.k = "float" THEN Raised("NotModelled")
    ELSE LET q == Abs(a.v) \div Abs(b.v)
         IN  IntObj(IF Sign(a.v) * Sign(b.v) >= 0 THEN q
                    ELSE IF Abs(a.v) % Abs(b.v) = 0 THEN -q ELSE -q - 1)

\* a / b: true division. A float never stands right of an operator (a
\* quotient or product replaces the element left of it), so a float divisor
\* is not modelled.
TrueDiv(a, b) ==
    IF ~IsNumber(a) \/ ~IsNumber(b) THEN Raised("TypeError")
    ELSE IF IsZero(b) THEN Raised("ZeroDivisionError")
    ELSE IF b.k = "float" THEN Raised("NotModelled")
    ELSE FloatObj(FloatDivInt(AsFloat(a), b.v))

\* a * b
Mul(a, b) ==
    IF a.k = "int" /\ b.k = "int" THEN IntObj(a.v * b.v)
    ELSE IF a.k = "str" /\ b.k = "int" THEN StrObj(Repeat(a.v, b.v))
    ELSE IF a.k = "int" /\ b.k = "str" THEN StrObj(Repeat(b.v, a.v))
    ELSE IF a.k = "float" /\ b.k = "int" THEN FloatObj(FloatMulInt(a.v, b.v))
    ELSE IF a.k = "int" /\ b.k = "float" THEN FloatObj(FloatMulInt(b.v, a.v))
    ELSE IF a.k = "float" /\ b.k = "float" THEN Raised("NotModelled")
    ELSE Raised("TypeError")

\* a + b, as sum() adds
Add(a, b) ==
    IF ~IsNumber(a) \/ ~IsNumber(b) THEN Raised("TypeError")
    ELSE IF a.k = "int" /\ b.k = "int" THEN IntObj(a.v + b.v)
    ELSE FloatObj(FloatAdd(AsFloat(a), AsFloat(b)))


(***************************************************************************)
(* solve_expression                                                        *)
(***************************************************************************)
\* A loop's outcome: the list it leaves, or the exception it raises
Continue(list) == [exc |-> "", list |-> list]
Abort(e) == [exc |-> e, list |-> <<>>]

\* [+,\-,*,\/]{2} matches somewhere: two consecutive characters of the class
ConsecutiveOperators(str) ==
    \E k \in 1..(Len(str) - 1) : str[k] \in OperatorClass /\ str[k + 1] \in OperatorClass

\* ^0+ matches: the string begins with 0
LeadingZeros(str) == Len(str) > 0 /\ str[1] = "0"

\* A mutant of LoneZeros: \D0+(\D|$), which discards the operands that are
\* zero and lets an operand with a leading zero through
LoneZerosOnly(str) ==
    \E k \in 1..(Len(str) - 1) :
        /\ str[k] \notin DigitChars
        /\ \E b \in (k + 1)..Len(str) :
              /\ \A j \in (k + 1)..b : str[j] = "0"
              /\ b = Len(str) \/ str[b + 1] \notin DigitChars

\* \D0+ matches somewhere: a character that is no digit, then 0
LoneZeros(str) ==
    \E k \in 1..(Len(str) - 1) : str[k] \notin DigitChars /\ str[k + 1] = "0"

\* A mutant of PreValidation: the alternative \D0+ is missing
PreValidationWithoutLoneZeros(str) == ConsecutiveOperators(str) \/ LeadingZeros(str)

\* re.findall(r"[+,\-,*,\/]{2}|^0+|\D0+", expression) is not empty
PreValidation(str) == ConsecutiveOperators(str) \/ LeadingZeros(str) \/ LoneZeros(str)

\* JOINING NUMBERS: the while loop over the list of characters, then the append
RECURSIVE JoinNumbersLoop(_, _, _)
JoinNumbersLoop(list, temp, i) ==
    IF i < Len(list)
    THEN IF IsNumeric(At(list, i))
         THEN JoinNumbersLoop(Pop(list, i), temp \o At(list, i), i)
         ELSE JoinNumbersLoop(IF temp # <<>> THEN Insert(list, i, temp) ELSE list,
                              <<>>, i + 1)
    ELSE Append(list, temp)

JoinNumbers(str) == JoinNumbersLoop(ListOf(str), <<>>, 0)

\* x in "+-" for a str x: x is a substring of "+-"
InPlusMinus(str) == str \in {<<>>, <<"+">>, <<"-">>, <<"+", "-">>}

\* JOINING NUMBERS TO OPERATORS: the while loop from index i on
RECURSIVE JoinOperatorsLoop(_, _)
JoinOperatorsLoop(list, i) ==
    IF Contains(list, <<"+">>) \/ Contains(list, <<"-">>)
    THEN IF i - 1 >= Len(list) THEN Abort("IndexError")
         ELSE IF InPlusMinus(At(list, i - 1))
         THEN IF i >= Len(list) THEN Abort("IndexError")
              ELSE JoinOperatorsLoop(
                       Pop([list EXCEPT ![i] = At(list, i - 1) \o At(list, i)], i), i + 1)
         ELSE JoinOperatorsLoop(list, i + 1)
    ELSE Continue(list)

JoinOperators(list) == JoinOperatorsLoop(list, 1)

\* int(str) does not raise ValueError: an optional sign, then digits
IsIntLiteral(str) ==
    /\ Len(str) > 0
    /\ IF str[1] \in {"+", "-"} THEN IsNumeric(Tail(str)) ELSE IsNumeric(str)

\* The number a string of digits writes in base 10
RECURSIVE DecimalValue(_)
DecimalValue(str) ==
    IF str = <<>> THEN 0
    ELSE 10 * DecimalValue(SubSeq(str, 1, Len(str) - 1)) + DigitValue[str[Len(str)]]

\* int(str) for a str that int() accepts
ParseInt(str) ==
    IF str[1] = "-" THEN -DecimalValue(Tail(str))
    ELSE IF str[1] = "+" THEN DecimalValue(Tail(str))
    ELSE DecimalValue(str)

\* CONVERTING NUMBERS TO INTS: an element int() rejects stays a str
ConvertToInts(list) ==
    [k \in 1..Len(list) |->
        IF IsIntLiteral(list[k]) THEN IntObj(ParseInt(list[k])) ELSE StrObj(list[k])]

\* x == op for an element x of the list
IsStr(obj, str) == obj.k = "str" /\ obj.v = str

\* op in expression
HasStr(list, str) == \E k \in 1..Len(list) : IsStr(list[k], str)

\* SOLVING MULTIPLICATIONS AND DIVISIONS: the while loop from index i on
RECURSIVE SolveMulDivLoop(_, _)
SolveMulDivLoop(list, i) ==
    IF HasStr(list, <<"/">>) \/ HasStr(list, <<"*">>)
    THEN IF i >= Len(list) THEN Abort("IndexError")
         ELSE IF IsStr(At(list, i), <<"/">>) \/ IsStr(At(list, i), <<"*">>)
         THEN IF i + 1 >= Len(list) THEN Abort("IndexError")
              ELSE LET r == IF IsStr(At(list, i), <<"/">>)
                            THEN TrueDiv(At(list, i - 1), At(list, i + 1))
                            ELSE Mul(At(list, i - 1), At(list, i + 1))
                   IN  IF IsRaised(r) THEN Abort(r.k)
                       ELSE SolveMulDivLoop(Pop(Pop([list EXCEPT ![i] = r], i), i), i)
         ELSE SolveMulDivLoop(list, i + 1)
    ELSE Continue(list)

\* A mutant of SolveMulDiv: the index goes to the next element after an
\* operation too
RECURSIVE SolveMulDivLoopStepping(_, _)
SolveMulDivLoopStepping(list, i) ==
    IF HasStr(list, <<"/">>) \/ HasStr(list, <<"*">>)
    THEN IF i >= Len(list) THEN Abort("IndexError")
         ELSE IF IsStr(At(list, i), <<"/">>) \/ IsStr(At(list, i), <<"*">>)
         THEN IF i + 1 >= Len(list) THEN Abort("IndexError")
              ELSE LET r == IF IsStr(At(list, i), <<"/">>)
                            THEN TrueDiv(At(list, i - 1), At(list, i + 1))
                            ELSE Mul(At(list, i - 1), At(list, i + 1))
                   IN  IF IsRaised(r) THEN Abort(r.k)
                       ELSE SolveMulDivLoopStepping(
                                Pop(Pop([list EXCEPT ![i] = r], i), i), i + 1)
         ELSE SolveMulDivLoopStepping(list, i + 1)
    ELSE Continue(list)

SolveMulDivStepping(list) == SolveMulDivLoopStepping(list, 1)

SolveMulDiv(list) == SolveMulDivLoop(list, 1)

\* sum(list) from the k-th element on, acc the sum so far
RECURSIVE SumLoop(_, _, _)
SumLoop(list, k, acc) ==
    IF k > Len(list) \/ IsRaised(acc) THEN acc
    ELSE SumLoop(list, k + 1, Add(acc, list[k]))

\* SUMMING ALL ELEMENTS: what the function returns
SumElements(list) ==
    IF list = <<>> THEN None
    ELSE LET result == SumLoop(list, 1, IntObj(0))
         IN  IF IsRaised(result) THEN result
             ELSE IF result.k = "int" THEN result
             ELSE IF FloatIsWhole(result.v) THEN IntObj(FloatToInt(result.v))
             ELSE None

solve_expression(str) ==
    IF PreValidation(str) THEN None
    ELSE LET joined == JoinOperators(JoinNumbers(str))
         IN  IF joined.exc # "" THEN Raised(joined.exc)
             ELSE LET solved == SolveMulDiv(ConvertToInts(joined.list))
                  IN  IF solved.exc # "" THEN Raised(solved.exc)
                      ELSE SumElements(solved.list)

(***************************************************************************)
(* solve_result                                                            *)
(***************************************************************************)
\* A mutant of LeadingZerosResult: ^0+, any zero at the start
LeadingZerosResultAny(str) == Len(str) > 0 /\ str[1] = "0"

\* ^0+[1-9] matches: zeros at the start, then a digit that is not 0
LeadingZerosResult(str) ==
    \E k \in 2..Len(str) :
        /\ \A j \in 1..(k - 1) : str[j] = "0"
        /\ str[k] \in DigitChars \ {"0"}

solve_result(str) ==
    IF LeadingZerosResult(str) THEN None
    ELSE IF IsIntLiteral(str) THEN IntObj(ParseInt(str))
    ELSE Raised("ValueError")

(***************************************************************************)
(* gen_patterns                                                            *)
(***************************************************************************)
GameModes == {"MINI_NERDLE", "NERDLE"}

\* GAME_MODES[game_mode]["NUMBER_OF_ELEMENTS"]
NUMBER_OF_ELEMENTS == ("MINI_NERDLE" :> 6) @@ ("NERDLE" :> 8)

\* The alphabets of the positions, as the lists of gen_patterns
FirstAlphabet == <<"1", "2", "3", "4", "5", "6", "7", "8", "9">>
MiddleAlphabet == <<"1", "2", "3", "4", "5", "6", "7", "8", "9", "0", "+", "-", "*", "/">>
LastAlphabet == <<"1", "2", "3", "4", "5", "6", "7", "8", "9", "0">>
EqualAlphabet == <<"=">>

\* An alphabet with its digits above maxdigit left out (none is, for 9)
Digits(alphabet, maxdigit) ==
    LET keep(c) == c \notin DigitChars \/ DigitValue[c] <= maxdigit
    IN  SelectSeq(alphabet, keep)

\* int(h / 2) for a number of halves h: Python's int() truncates toward zero
IntOfHalves(h) == IF h >= 0 THEN h \div 2 ELSE -((-h) \div 2)

\* [x for _ in range(n)]
Copies(x, n) == [k \in 1..n |-> x]

\* A mutant of Pattern: the count of middle positions forgets the term
\* (number_of_elements - 8) / 2 and is equal_sign_idx - 2 in every mode
PatternOfRegular(number_of_elements, equal_sign_idx, maxdigit) ==
    LET first == Digits(FirstAlphabet, maxdigit)
        middle == Digits(MiddleAlphabet, maxdigit)
        last == Digits(LastAlphabet, maxdigit)
        middles == equal_sign_idx - 2
        more == IntOfHalves(number_of_elements + 8) - (equal_sign_idx + 2)
    IN  <<first>> \o Copies(middle, middles) \o <<last>> \o <<EqualAlphabet>>
        \o (IF 2 * equal_sign_idx < number_of_elements + 4
            THEN <<first>> \o Copies(last, more)
            ELSE <<last>>)

\* A mutant of Pattern: the first position of a result of several digits
\* takes the alphabet with '0'
PatternZeroResult(number_of_elements, equal_sign_idx, maxdigit) ==
    LET first == Digits(FirstAlphabet, maxdigit)
        middle == Digits(MiddleAlphabet, maxdigit)
        last == Digits(LastAlphabet, maxdigit)
        middles == equal_sign_idx + IntOfHalves((number_of_elements - 8) - 4)
        more == IntOfHalves(number_of_elements + 8) - (equal_sign_idx + 2)
    IN  <<first>> \o Copies(middle, middles) \o <<last>> \o <<EqualAlphabet>>
        \o (IF 2 * equal_sign_idx < number_of_elements + 4
            THEN <<last>> \o Copies(last, more)
            ELSE <<last>>)

\* The pattern of one iteration of the loop over equal_sign_idx
Pattern(number_of_elements, equal_sign_idx, maxdigit) ==
    LET first == Digits(FirstAlphabet, maxdigit)
        middle == Digits(MiddleAlphabet, maxdigit)
        last == Digits(LastAlphabet, maxdigit)
        \* range(equal_sign_idx + int(((number_of_elements - 8) / 2) - 2))
        middles == equal_sign_idx + IntOfHalves((number_of_elements - 8) - 4)
        \* range(equal_sign_idx + 2, int((number_of_elements / 2) + 4))
        more == IntOfHalves(number_of_elements + 8) - (equal_sign_idx + 2)
    IN  <<first>> \o Copies(middle, middles) \o <<last>> \o <<EqualAlphabet>>
        \o (IF 2 * equal_sign_idx < number_of_elements + 4
            THEN <<first>> \o Copies(last, more)
            ELSE <<last>>)

\* A mutant of Patterns: every pattern is that of the first equal_sign_idx
PatternsRepeated(number_of_elements, maxdigit) ==
    [k \in 1..(IntOfHalves(number_of_elements + 6) - 4) |->
        Pattern(number_of_elements, 4, maxdigit)]

\* A mutant of Patterns: range(4, int((number_of_elements / 2) + 2))
PatternsShort(number_of_elements, maxdigit) ==
    [k \in 1..(IntOfHalves(number_of_elements + 4) - 4) |->
        Pattern(number_of_elements, 3 + k, maxdigit)]

\* gen_patterns for a number of elements: one pattern for each
\* equal_sign_idx in range(4, int((number_of_elements / 2) + 3))
Patterns(number_of_elements, maxdigit) ==
    [k \in 1..(IntOfHalves(number_of_elements + 6) - 4) |->
        Pattern(number_of_elements, 3 + k, maxdigit)]

gen_patterns(game_mode) ==
    Patterns(NUMBER_OF_ELEMENTS[game_mode],
             IF game_mode = "MINI_NERDLE" THEN MaxDigitMini ELSE MaxDigitRegular)

(***************************************************************************)
(* gen_equations                                                           *)
(***************************************************************************)
\* candidates_count: the product of the lengths of the subpatterns, from
\* the k-th on
RECURSIVE CandidatesCountFrom(_, _)
CandidatesCountFrom(pattern, k) ==
    IF k > Len(pattern) THEN 1
    ELSE Len(pattern[k]) * CandidatesCountFrom(pattern, k + 1)

CandidatesCount(pattern) == CandidatesCountFrom(pattern, 1)

\* itertools.product(*pattern) before its first element: the indices into
\* the pools, or <<>> once exhausted (a product with an empty pool is empty)
ProductFirst(pattern) ==
    IF \E k \in 1..Len(pattern) : Len(pattern[k]) = 0 THEN <<>>
    ELSE [k \in 1..Len(pattern) |-> 0]

\* A mutant of ProductNext: the indices right of the one that advances are
\* not set back
ProductNextNoReset(pattern, indices) ==
    IF \A k \in 1..Len(pattern) : indices[k] + 1 >= Len(pattern[k]) THEN <<>>
    ELSE LET j == CHOOSE k \in 1..Len(pattern) :
                      /\ indices[k] + 1 < Len(pattern[k])
                      /\ \A l \in (k + 1)..Len(pattern) : indices[l] + 1 >= Len(pattern[l])
         IN  [k \in 1..Len(pattern) |-> IF k = j THEN indices[k] + 1 ELSE indices[k]]

\* The indices after those of the element just produced: the rightmost index
\* that can advance does, and those right of it start again
ProductNext(pattern, indices) ==
    IF \A k \in 1..Len(pattern) : indices[k] + 1 >= Len(pattern[k]) THEN <<>>
    ELSE LET j == CHOOSE k \in 1..Len(pattern) :
                      /\ indices[k] + 1 < Len(pattern[k])
                      /\ \A l \in (k + 1)..Len(pattern) : indices[l] + 1 >= Len(pattern[l])
         IN  [k \in 1..Len(pattern) |->
                 IF k < j THEN indices[k] ELSE IF k = j THEN indices[k] + 1 ELSE 0]

\* "".join(equation) for the tuple the indices select
Join(pattern, indices) == [k \in 1..Len(pattern) |-> At(pattern[k], indices[k])]

\* expression, result = equation.split("=")
EqualSigns(str) == {k \in 1..Len(str) : str[k] = "="}
SplitExpression(str) == SubSeq(str, 1, (CHOOSE k \in EqualSigns(str) : TRUE) - 1)
SplitResult(str) == SubSeq(str, (CHOOSE k \in EqualSigns(str) : TRUE) + 1, Len(str))

\* A mutant of IsValidEquation: the comparison of the two values is forgotten
IsValidEquationUncompared(solved, generated) ==
    solved.k # "None" /\ generated.k # "None"

\* A mutant of IsValidEquation: the two values are compared with <=
IsValidEquationAtMost(solved, generated) ==
    /\ solved.k # "None"
    /\ generated.k # "None"
    /\ solved.v <= generated.v

\* solved_result is not None and generated_result is not None and
\* solved_result == generated_result (None == None is True in Python)
IsValidEquation(solved, generated) ==
    /\ solved.k # "None"
    /\ generated.k # "None"
    /\ solved = generated

\* The row writer.writerow([equation]) appends
Row(equation) == equation
CSV_HEADER == <<"e", "q", "u", "a", "t", "i", "o", "n">>

(***************************************************************************)
(* The notebook as a state machine: gen_patterns(game_mode), then           *)
(* gen_equations(game_mode), one candidate a step.                          *)
(***************************************************************************)
VARIABLES
    pc,                         \* where the notebook, or the function called, is
    game_mode,
    patterns,                   \* GAME_MODES[game_mode]["patterns"]
    i,                          \* the index of the pattern in gen_equations
    candidates_count,
    equations,                  \* the iterator itertools.product(*pattern)
    progress,                   \* the candidates the tqdm bar has counted
    equation,                   \* the candidate last examined
    solved_result,
    generated_result,
    total_expressions_counter,
    valid_expressions_counter,
    output,                     \* the rows of the output file
    function,                   \* the function a call is to
    argument,                   \* the string it is called with
    expression,                 \* solve_expression's list
    returned                    \* what the call returned or raised

pipeline == <<game_mode, patterns, i, candidates_count, equations, progress, equation,
              solved_result, generated_result, total_expressions_counter,
              valid_expressions_counter, output>>
call == <<function, argument, expression, returned>>
vars == <<pc, pipeline, call>>

NoCall ==
    /\ function = ""
    /\ argument = <<>>
    /\ expression = <<>>
    /\ returned = None

Init ==
    /\ pc = "gen_patterns"
    /\ game_mode \in GameModes
    /\ patterns = <<>>
    /\ i = 0
    /\ candidates_count = 0
    /\ equations = <<>>
    /\ progress = 0
    /\ equation = <<>>
    /\ solved_result = None
    /\ generated_result = None
    /\ total_expressions_counter = 0
    /\ valid_expressions_counter = 0
    /\ output = <<>>
    /\ NoCall

\* GAME_MODES[game_mode]["patterns"] = gen_patterns(game_mode)
GenPatterns ==
    /\ pc = "gen_patterns"
    /\ patterns' = gen_patterns(game_mode)
    /\ pc' = "gen_equations"
    /\ UNCHANGED <<game_mode, i, candidates_count, equations, progress, equation,
                   solved_result, generated_result, total_expressions_counter,
                   valid_expressions_counter, output, call>>

\* gen_equations up to its loop: the counters, and the output file with its header
GenEquations ==
    /\ pc = "gen_equations"
    /\ total_expressions_counter' = 0
    /\ valid_expressions_counter' = 0
    /\ output' = <<CSV_HEADER>>
    /\ i' = 0
    /\ pc' = "pattern"
    /\ UNCHANGED <<game_mode, patterns, candidates_count, equations, progress, equation,
                   solved_result, generated_result, call>>

\* for i, pattern in enumerate(patterns): candidates_count and the iterator
NextPattern ==
    /\ pc = "pattern"
    /\ i < Len(patterns)
    /\ candidates_count' = CandidatesCount(At(patterns, i))
    /\ equations' = ProductFirst(At(patterns, i))
    /\ progress' = 0
    /\ pc' = "candidate"
    /\ UNCHANGED <<game_mode, patterns, i, equation, solved_result, generated_result,
                   total_expressions_counter, valid_expressions_counter, output, call>>

\* One iteration of the loop over the candidates of the pattern
ExamineCandidate ==
    /\ pc = "candidate"
    /\ equations # <<>>
    /\ \E candidate \in {Join(At(patterns, i), equations)} :
       \E solved \in {solve_expression(SplitExpression(candidate))} :
       \E generated \in {solve_result(SplitResult(candidate))} :
           /\ equation' = candidate
           /\ solved_result' = solved
           /\ generated_result' = generated
           /\ IF IsRaised(solved) \/ IsRaised(generated)
              THEN \* the exception leaves gen_equations
                   /\ pc' = "raised"
                   /\ UNCHANGED <<output, valid_expressions_counter,
                                  total_expressions_counter>>
              ELSE /\ pc' = pc
                   /\ total_expressions_counter' = total_expressions_counter + 1
                   /\ IF IsValidEquation(solved, generated)
                      THEN /\ output' = Append(output, Row(candidate))
                           /\ valid_expressions_counter' = valid_expressions_counter + 1
                      ELSE UNCHANGED <<output, valid_expressions_counter>>
    /\ progress' = progress + 1
    /\ equations' = ProductNext(At(patterns, i), equations)
    /\ UNCHANGED <<game_mode, patterns, i, candidates_count, call>>

\* The iterator is exhausted: on to the next pattern
EndPattern ==
    /\ pc = "candidate"
    /\ equations = <<>>
    /\ i' = i + 1
    /\ pc' = "pattern"
    /\ UNCHANGED <<game_mode, patterns, candidates_count, equations, progress, equation,
                   solved_result, generated_result, total_expressions_counter,
                   valid_expressions_counter, output, call>>

\* The loop over the patterns is over: the counters are printed
Report ==
    /\ pc = "pattern"
    /\ i >= Len(patterns)
    /\ pc' = "done"
    /\ UNCHANGED <<pipeline, call>>

Next ==
    \/ GenPatterns
    \/ GenEquations
    \/ NextPattern
    \/ ExamineCandidate
    \/ EndPattern
    \/ Report

Spec == Init /\ [][Next]_vars

(***************************************************************************)
(* Calls of solve_expression and solve_result, a section of the function a *)
(* step.                                                                   *)
(***************************************************************************)
\* The test cases of the notebook: the string and the expected output
TEST_EQUATIONS ==
    << <<<<"-", "3", "+", "4", "/", "2">>, IntObj(-1)>>,
       <<<<"8", "+", "6", "-", "1", "4">>, IntObj(0)>>,
       <<<<"-", "1", "0", "+", "1", "0">>, IntObj(0)>>,
       <<<<"-", "1", "0", "+", "1", "0">>, IntObj(0)>>,
       <<<<"1", "0", "-", "1", "-", "9">>, IntObj(0)>>,
       <<<<"4", "0", "/", "4", "/", "2">>, IntObj(5)>>,
       <<<<"1", "+", "2", "+", "3", "0">>, IntObj(33)>>,
       <<<<"3", "+", "2", "1", "/", "3">>, IntObj(10)>>,
       <<<<"4", "0", "/", "4", "+", "2">>, IntObj(12)>>,
       <<<<"1", "6", "+", "4", "*", "2">>, IntObj(24)>>,
       <<<<"2", "/", "1", "*", "4", "0">>, IntObj(80)>>,
       <<<<"1", "9", "5", "-", "8", "7">>, IntObj(108)>>,
       <<<<"8", "0", "1", "/", "8", "9">>, IntObj(9)>>,
       <<<<"8", "/", "1", "0", "*", "5">>, IntObj(4)>>,
       <<<<"8", "/", "1", "2", "*", "9">>, IntObj(6)>>,
       <<<<"1", "+", "2", "/", "0", "0">>, None>>,
       <<<<"2", "/", "0", "*", "1", "0">>, None>>,
       <<<<"0", "+", "5", "0", "/", "1">>, None>>,
       <<<<"5", "0", "/", "1", "+", "0">>, None>>,
       <<<<"5", "0", "-", "0", "+", "2">>, None>>,
       <<<<"4", "+", "0", "0", "-", "3">>, None>>,
       <<<<"0", "5", "-", "1", "+", "2">>, None>>,
       <<<<"9", "+", "0", "4", "/", "2">>, None>>,
       <<<<"6", "/", "3", "+", "0", "9">>, None>> >>

TEST_RESULTS ==
    << <<<<"0">>, IntObj(0)>>,
       <<<<"9">>, IntObj(9)>>,
       <<<<"1", "0">>, IntObj(10)>>,
       <<<<"7", "8">>, IntObj(78)>>,
       <<<<"2", "3", "4">>, IntObj(234)>>,
       <<<<"9", "0", "8">>, IntObj(908)>>,
       <<<<"5", "0", "0">>, IntObj(500)>>,
       <<<<"0", "5">>, None>>,
       <<<<"0", "0", "6">>, None>>,
       <<<<"0", "3", "5">>, None>> >>

Range(list) == {list[k] : k \in 1..Len(list)}

\* str(n) for n >= 0
RECURSIVE Decimal(_)
Decimal(n) ==
    IF n < 10 THEN <<DigitChar[n + 1]>>
    ELSE Append(Decimal(n \div 10), DigitChar[(n % 10) + 1])

InputDigits == {DigitChar[d + 1] : d \in 0..MaxInputDigit}
Operators == {"+", "-", "*", "/"}
Strings(alphabet) == UNION {[1..n -> alphabet] : n \in 1..MaxLen}

QuotientProducts ==
    {Decimal(a) \o <<"/">> \o Decimal(b) \o <<"*">> \o Decimal(c) :
        a \in 1..MaxOperand, b \in 1..MaxOperand, c \in 1..MaxFactor}

ExpressionInputs ==
    Strings(InputDigits \cup Operators)
        \cup {t[1] : t \in Range(TEST_EQUATIONS)}
        \cup QuotientProducts

ResultInputs == Strings(InputDigits) \cup {t[1] : t \in Range(TEST_RESULTS)}

NoPipeline ==
    /\ game_mode = ""
    /\ patterns = <<>>
    /\ i = 0
    /\ candidates_count = 0
    /\ equations = <<>>
    /\ progress = 0
    /\ equation = <<>>
    /\ solved_result = None
    /\ generated_result = None
    /\ total_expressions_counter = 0
    /\ valid_expressions_counter = 0
    /\ output = <<>>

CallInit ==
    /\ \/ /\ function = "solve_expression"
          /\ argument \in ExpressionInputs
          /\ pc = "PRE VALIDATION"
       \/ /\ function = "solve_result"
          /\ argument \in ResultInputs
          /\ pc = "solve_result"
    /\ expression = argument
    /\ returned = None
    /\ NoPipeline

Return(value) ==
    /\ returned' = value
    /\ pc' = IF IsRaised(value) THEN "raised" ELSE "returned"
    /\ UNCHANGED <<function, argument, expression, pipeline>>

Goto(section, list) ==
    /\ expression' = list
    /\ pc' = section
    /\ UNCHANGED <<function, argument, returned, pipeline>>

PreValidate ==
    /\ pc = "PRE VALIDATION"
    /\ IF PreValidation(expression) THEN Return(None)
       ELSE Goto("JOINING NUMBERS", expression)

JoinNumbersSection ==
    /\ pc = "JOINING NUMBERS"
    /\ Goto("JOINING NUMBERS TO OPERATORS", JoinNumbers(expression))

JoinOperatorsSection ==
    /\ pc = "JOINING NUMBERS TO OPERATORS"
    /\ LET joined == JoinOperators(expression)
       IN  IF joined.exc # "" THEN Return(Raised(joined.exc))
           ELSE Goto("CONVERTING NUMBERS TO INTS", joined.list)

ConvertSection ==
    /\ pc = "CONVERTING NUMBERS TO INTS"
    /\ Goto("SOLVING MULTIPLICATIONS AND DIVISIONS", ConvertToInts(expression))

SolveMulDivSection ==
    /\ pc = "SOLVING MULTIPLICATIONS AND DIVISIONS"
    /\ LET solved == SolveMulDiv(expression)
       IN  IF solved.exc # "" THEN Return(Raised(solved.exc))
           ELSE Goto("SUMMING ALL ELEMENTS", solved.list)

SumSection ==
    /\ pc = "SUMMING ALL ELEMENTS"
    /\ Return(SumElements(expression))

SolveResult ==
    /\ pc = "solve_result"
    /\ Return(solve_result(argument))

CallNext ==
    \/ PreValidate
    \/ JoinNumbersSection
    \/ JoinOperatorsSection
    \/ ConvertSection
    \/ SolveMulDivSection
    \/ SumSection
    \/ SolveResult

CallSpec == CallInit /\ [][CallNext]_vars

(***************************************************************************)
(* The calls gen_equations makes of solve_expression: the argument is the  *)
(* expression part of a candidate of a pattern of either mode.              *)
(***************************************************************************)
\* The strings of the Cartesian product of the alphabets from the k-th on
RECURSIVE Words(_, _)
Words(alphabets, k) ==
    IF k > Len(alphabets) THEN {<<>>}
    ELSE {<<c>> \o w : c \in Range(alphabets[k]), w \in Words(alphabets, k + 1)}

\* The alphabets of a pattern before its "="
ExpressionAlphabets(pattern) ==
    SubSeq(pattern, 1, (CHOOSE p \in 1..Len(pattern) : pattern[p] = EqualAlphabet) - 1)

PatternExpressions ==
    UNION {Words(ExpressionAlphabets(pattern), 1) :
              pattern \in UNION {Range(Patterns(NUMBER_OF_ELEMENTS[mode], MaxExpressionDigit)) :
                                     mode \in GameModes}}

ExpressionInit ==
    /\ function = "solve_expression"
    /\ argument \in PatternExpressions
    /\ pc = "PRE VALIDATION"
    /\ expression = argument
    /\ returned = None
    /\ NoPipeline

ExpressionNext ==
    \/ PreValidate
    \/ JoinNumbersSection
    \/ JoinOperatorsSection
    \/ ConvertSection
    \/ SolveMulDivSection
    \/ SumSection

ExpressionSpec == ExpressionInit /\ [][ExpressionNext]_vars

(***************************************************************************)
(* The run the notebook records for the mode of 6 elements:                *)
(* gen_patterns("MINI_NERDLE") with the alphabets as they are written, all *)
(* the digits, then gen_equations("MINI_NERDLE").                           *)
(***************************************************************************)
MiniInit ==
    /\ Init
    /\ game_mode = "MINI_NERDLE"

\* GAME_MODES[game_mode]["patterns"] = gen_patterns(game_mode), no digit left out
GenPatternsAllDigits ==
    /\ pc = "gen_patterns"
    /\ patterns' = Patterns(NUMBER_OF_ELEMENTS[game_mode], 9)
    /\ pc' = "gen_equations"
    /\ UNCHANGED <<game_mode, i, candidates_count, equations, progress, equation,
                   solved_result, generated_result, total_expressions_counter,
                   valid_expressions_counter, output, call>>

\* The variables the loop over the candidates changes
LoopState ==
    [pc |-> pc, equations |-> equations, progress |-> progress, equation |-> equation,
     solved_result |-> solved_result, generated_result |-> generated_result,
     total_expressions_counter |-> total_expressions_counter,
     valid_expressions_counter |-> valid_expressions_counter, output |-> output]

\* The end of an iteration of the loop over the candidates of pattern, from
\* the loop state st, for the candidate and the two values computed for it
Examined(pattern, st, candidate, solved, generated) ==
    IF IsRaised(solved) \/ IsRaised(generated)
    THEN [st EXCEPT !.pc = "raised",
                    !.equation = candidate,
                    !.solved_result = solved,
                    !.generated_result = generated,
                    !.progress = @ + 1,
                    !.equations = ProductNext(pattern, @)]
    ELSE [st EXCEPT !.equation = candidate,
                    !.solved_result = solved,
                    !.generated_result = generated,
                    !.total_expressions_counter = @ + 1,
                    !.valid_expressions_counter =
                        IF IsValidEquation(solved, generated) THEN @ + 1 ELSE @,
                    !.output =
                        IF IsValidEquation(solved, generated)
                        THEN Append(@, Row(candidate)) ELSE @,
                    !.progress = @ + 1,
                    !.equations = ProductNext(pattern, @)]

\* One iteration of the loop over the candidates of pattern, from the loop
\* state st, solved being solve_expression(expression) for the expression of
\* the candidate: what ExamineCandidate does to the variables
Iteration(pattern, st, candidate, solved) ==
    Examined(pattern, st, candidate, solved, solve_result(SplitResult(candidate)))

\* Up to n iterations of the loop for candidates with one expression, until
\* the iterator is exhausted or an exception leaves gen_equations
RECURSIVE Iterations(_, _, _, _, _)
Iterations(pattern, st, n, expr, solved) ==
    IF n = 0 \/ st.equations = <<>> \/ st.pc = "raised" THEN st
    ELSE IF SplitExpression(Join(pattern, st.equations)) # expr THEN st
    ELSE Iterations(pattern, Iteration(pattern, st, Join(pattern, st.equations), solved),
                    n - 1, expr, solved)

\* The iterations for the candidates that share the expression of the next
\* one, n at most. The results of a pattern vary fastest, so these candidates
\* follow one another; solve_expression depends on its argument alone, and
\* its value for their expression is computed once.
Burst(pattern, st, n, expr) == Iterations(pattern, st, n, expr, solve_expression(expr))

\* A run of iterations of the loop over the candidates, MaxBurst at most, as
\* one step
ExamineCandidates ==
    /\ pc = "candidate"
    /\ equations # <<>>
    /\ \E st \in {Burst(At(patterns, i), LoopState, MaxBurst,
                         SplitExpression(Join(At(patterns, i), equations)))} :
           /\ pc' = st.pc
           /\ equations' = st.equations
           /\ progress' = st.progress
           /\ equation' = st.equation
           /\ solved_result' = st.solved_result
           /\ generated_result' = st.generated_result
           /\ total_expressions_counter' = st.total_expressions_counter
           /\ valid_expressions_counter' = st.valid_expressions_counter
           /\ output' = st.output
    /\ UNCHANGED <<game_mode, patterns, i, candidates_count, call>>

MiniNext ==
    \/ GenPatternsAllDigits
    \/ GenEquations
    \/ NextPattern
    \/ ExamineCandidates
    \/ EndPattern
    \/ Report

MiniSpec == MiniInit /\ [][MiniNext]_vars

(***************************************************************************)
(* The arithmetic the claims speak of: the exact value of a well-formed     *)
(* expression, as a fraction <<numerator, denominator>> in lowest terms.    *)
(***************************************************************************)
RECURSIVE Gcd(_, _)
Gcd(a, b) == IF b = 0 THEN a ELSE Gcd(b, a % b)

Fraction(n, d) ==
    LET g == Gcd(Abs(n), Abs(d))
    IN  <<Sign(d) * (n \div g), Abs(d) \div g>>

FractionAdd(x, y) == Fraction(x[1] * y[2] + y[1] * x[2], x[2] * y[2])
FractionMul(x, n) == Fraction(x[1] * n, x[2])
FractionDiv(x, n) == Fraction(x[1], x[2] * n)

\* Digit runs separated by single operators, after at most one leading sign
WellFormed(str) ==
    /\ Len(str) > 0
    /\ \A k \in 1..Len(str) : str[k] \in DigitChars \cup Operators
    /\ str[Len(str)] \in DigitChars
    /\ str[1] \in DigitChars \cup {"+", "-"}
    /\ \A k \in 1..(Len(str) - 1) : ~(str[k] \in Operators /\ str[k + 1] \in Operators)

\* The number the digits str[a..b] write
RECURSIVE NumberAt(_, _, _)
NumberAt(str, a, b) ==
    IF b < a THEN 0 ELSE 10 * NumberAt(str, a, b - 1) + DigitValue[str[b]]

\* The end of the digit run that starts at position a
RunEnd(str, a) ==
    CHOOSE b \in a..Len(str) :
        /\ \A k \in a..b : str[k] \in DigitChars
        /\ b = Len(str) \/ str[b + 1] \notin DigitChars

\* The value from the operator at position k on: sum is the sum of the terms
\* before the current one, term the current term with its * and / applied
\* from left to right
RECURSIVE ExactFrom(_, _, _, _)
ExactFrom(str, k, sum, term) ==
    IF k > Len(str) THEN FractionAdd(sum, term)
    ELSE LET b == RunEnd(str, k + 1)
             n == NumberAt(str, k + 1, b)
         IN  IF str[k] = "*" THEN ExactFrom(str, b + 1, sum, FractionMul(term, n))
             ELSE IF str[k] = "/" THEN ExactFrom(str, b + 1, sum, FractionDiv(term, n))
             ELSE IF str[k] = "+"
             THEN ExactFrom(str, b + 1, FractionAdd(sum, term), <<n, 1>>)
             ELSE ExactFrom(str, b + 1, FractionAdd(sum, term), <<-n, 1>>)

\* The exact value of a well-formed expression no operand of which, after
\* an operator, is zero
ExactValue(str) ==
    IF str[1] \in DigitChars
    THEN LET b == RunEnd(str, 1)
         IN  ExactFrom(str, b + 1, <<0, 1>>, <<NumberAt(str, 1, b), 1>>)
    ELSE ExactFrom(str, 1, <<0, 1>>, <<0, 1>>)

IsWhole(x) == x[2] = 1

\* The rules of pre-validation, as the claims state them
R1(str) == \E k \in 1..(Len(str) - 1) : str[k] \in Operators /\ str[k + 1] \in Operators
R2(str) == Len(str) > 0 /\ str[1] = "0"
R3(str) == \E k \in 1..(Len(str) - 1) : str[k] \in Operators /\ str[k + 1] = "0"

\* A / followed by an operand of value zero: zeros up to the next operator or the end
DividesByZero(str) ==
    \E k \in 1..(Len(str) - 1) :
        /\ str[k] = "/"
        /\ \E b \in (k + 1)..Len(str) :
              /\ \A j \in (k + 1)..b : str[j] = "0"
              /\ b = Len(str) \/ str[b + 1] \notin DigitChars

\* The two parts of a candidate around its "="
EqualSign(str) == CHOOSE k \in 1..Len(str) : str[k] = "="
ExpressionPart(str) == SubSeq(str, 1, EqualSign(str) - 1)
ResultPart(str) == SubSeq(str, EqualSign(str) + 1, Len(str))

Finished == pc \in {"returned", "raised"}

(***************************************************************************)
(* The claims.                                                             *)
(***************************************************************************)
\* v1 and v2 are both not None, and equal
Accepted(candidate) ==
    LET v1 == solve_expression(ExpressionPart(candidate))
        v2 == solve_result(ResultPart(candidate))
    IN  v1.k = "int" /\ v2.k = "int" /\ v1.v = v2.v

\* C1: a step of gen_equations that examines a candidate appends the
\* candidate itself, unmodified, to the output if solve_expression of its
\* expression part and solve_result of its result part are both not None and
\* equal, and leaves the output as it is if not.
C1_WrittenIffValid ==
    [][progress' = progress + 1 =>
        LET candidate == Join(At(patterns, i), equations)
        IN  /\ equation' = candidate
            /\ IF Accepted(candidate)
               THEN /\ output' = Append(output, candidate)
                    /\ valid_expressions_counter' = valid_expressions_counter + 1
               ELSE /\ output' = output
                    /\ valid_expressions_counter' = valid_expressions_counter]_vars

\* C1's case: the candidate last examined was written
C1_Witness ==
    /\ equation # <<>>
    /\ Len(output) > 1
    /\ output[Len(output)] = equation
    /\ solved_result.k = "int"
    /\ solved_result = generated_result

\* C2: when solve_expression returns an int for a well-formed expression
\* that passes pre-validation, the int is the exact value of the expression:
\* * and / applied from left to right to the signed operands, then the sum
\* of the terms.
C2_ValueRespectsPrecedence ==
    (/\ function = "solve_expression"
     /\ pc = "returned"
     /\ returned.k = "int"
     /\ WellFormed(argument)
     /\ ~PreValidation(argument))
        => ExactValue(argument) = <<returned.v, 1>>

\* C2's case: -3+4/2 has returned -1
C2_Witness ==
    /\ function = "solve_expression"
    /\ pc = "returned"
    /\ argument = <<"-", "3", "+", "4", "/", "2">>
    /\ returned = IntObj(-1)

\* C3: for a well-formed expression that passes pre-validation,
\* solve_expression returns the exact value as an int when the exact value
\* is a whole number, and None when it is not.
C3_IntegerIffWhole ==
    (/\ function = "solve_expression"
     /\ Finished
     /\ WellFormed(argument)
     /\ ~PreValidation(argument))
        => IF IsWhole(ExactValue(argument))
           THEN returned = IntObj(ExactValue(argument)[1])
           ELSE returned = None

\* C4: an expression with two consecutive operators (R1), a 0 at its start
\* (R2) or a 0 right after an operator (R3) is answered None by the
\* pre-validation, and no later section of solve_expression runs on it.
C4_DiscardedBeforeTokenization ==
    (/\ function = "solve_expression"
     /\ R1(argument) \/ R2(argument) \/ R3(argument))
        => /\ pc \in {"PRE VALIDATION", "returned"}
           /\ expression = argument
           /\ pc = "returned" => returned = None

\* C4's case: 50-0+2 has returned None
C4_Witness ==
    /\ function = "solve_expression"
    /\ pc = "returned"
    /\ argument = <<"5", "0", "-", "0", "+", "2">>
    /\ R3(argument)
    /\ returned = None

\* C5: solve_expression never raises ZeroDivisionError; an expression in
\* which a / stands before an operand of value zero is answered None by the
\* pre-validation; and the list the division loop starts on has no zero
\* right of a "/".
C5_NoDivisionByZero ==
    function = "solve_expression" =>
        /\ returned.k # "ZeroDivisionError"
        /\ DividesByZero(argument) =>
              /\ pc \in {"PRE VALIDATION", "returned"}
              /\ pc = "returned" => returned = None
        /\ pc = "SOLVING MULTIPLICATIONS AND DIVISIONS" =>
              \A k \in 1..(Len(expression) - 1) :
                  IsStr(expression[k], <<"/">>) =>
                      ~(IsNumber(expression[k + 1]) /\ IsZero(expression[k + 1]))

\* C5's case: 2/0*10 has returned None
C5_Witness ==
    /\ function = "solve_expression"
    /\ pc = "returned"
    /\ argument = <<"2", "/", "0", "*", "1", "0">>
    /\ DividesByZero(argument)
    /\ returned = None

\* C6: for a string of digits that is not empty, solve_result returns None
\* if and only if the string begins with 0 and has a digit that is not 0,
\* and the number it writes in base 10 in every other case.
C6_ResultRule ==
    (/\ function = "solve_result"
     /\ Finished
     /\ Len(argument) > 0
     /\ \A k \in 1..Len(argument) : argument[k] \in DigitChars)
        => IF argument[1] = "0" /\ \E k \in 1..Len(argument) : argument[k] # "0"
           THEN returned = None
           ELSE returned = IntObj(NumberAt(argument, 1, Len(argument)))

\* C6's cases: 006 has returned None
C6_Witness ==
    /\ function = "solve_result"
    /\ pc = "returned"
    /\ argument = <<"0", "0", "6">>
    /\ returned = None

\* The positions (from 1) of the alphabet {=} in a pattern
EqualPositions(pattern) == {p \in 1..Len(pattern) : pattern[p] = <<"=">>}
EqualPosition(pattern) == CHOOSE p \in EqualPositions(pattern) : TRUE
ExpressionLengths(ps) == [k \in 1..Len(ps) |-> EqualPosition(ps[k]) - 1]
ResultLengths(ps) == [k \in 1..Len(ps) |-> Len(ps[k]) - EqualPosition(ps[k])]
ElementCount == NUMBER_OF_ELEMENTS[game_mode]

\* C7: gen_patterns returns two patterns with expression parts of 3 and 4
\* positions and results of 2 and 1 for 6 elements, three patterns with
\* expression parts of 4, 5 and 6 positions and results of 3, 2 and 1 for 8,
\* in that order; every pattern has as many positions as the mode has
\* elements, and exactly one position with the alphabet {=}.
C7_PatternShapes ==
    pc # "gen_patterns" =>
        /\ ElementCount = 6 =>
              /\ ExpressionLengths(patterns) = <<3, 4>>
              /\ ResultLengths(patterns) = <<2, 1>>
        /\ ElementCount = 8 =>
              /\ ExpressionLengths(patterns) = <<4, 5, 6>>
              /\ ResultLengths(patterns) = <<3, 2, 1>>
        /\ \A k \in 1..Len(patterns) :
              /\ Len(patterns[k]) = ElementCount
              /\ Cardinality(EqualPositions(patterns[k])) = 1

\* C7's case: gen_patterns has returned the three patterns of the regular mode
C7_Witness ==
    /\ pc = "gen_equations"
    /\ game_mode = "NERDLE"
    /\ Len(patterns) = 3

\* C8 as stated: the positions of "=" over the patterns, counted from 1, are
\* the indices of the range [4, N/2 + 3), one pattern for each.
C8_EqualSignAtLoopIndex ==
    pc # "gen_patterns" =>
        /\ Len(patterns) = Cardinality(4..((ElementCount \div 2) + 2))
        /\ \A k \in 1..Len(patterns) : EqualPositions(patterns[k]) = {3 + k}

\* C8 as amended: there is one pattern for each index e of the range
\* [4, N/2 + 3), in that order, and its "=" is the character e + (N - 6)/2,
\* counted from 1: the 4th and 5th for 6 elements, the 5th to 7th for 8,
\* that is the characters N/2 + 1 to N - 1.
C8_EqualSignPositions ==
    pc # "gen_patterns" =>
        /\ Len(patterns) = Cardinality(4..((ElementCount \div 2) + 2))
        /\ \A k \in 1..Len(patterns) :
              EqualPositions(patterns[k]) = {(3 + k) + ((ElementCount - 6) \div 2)}
        /\ {EqualPosition(patterns[k]) : k \in 1..Len(patterns)}
              = ((ElementCount \div 2) + 1)..(ElementCount - 1)

\* C8's case: in the regular mode the pattern of e = 6 has "=" as its 7th character
C8_Witness ==
    /\ pc = "gen_equations"
    /\ game_mode = "NERDLE"
    /\ EqualPositions(patterns[3]) = {7}

NonZeroDigitChars == DigitChars \ {"0"}

\* C9: the expression part of a candidate begins with a digit 1..9 and ends
\* with a digit, its result part holds digits only and begins with 0 only
\* when it is one character long: for the candidate examined, and for the
\* alphabets of the patterns with all the digits.
C9_CandidateShape ==
    /\ equation # <<>> =>
          LET e == ExpressionPart(equation)
              r == ResultPart(equation)
          IN  /\ e[1] \in NonZeroDigitChars
              /\ e[Len(e)] \in DigitChars
              /\ \A k \in 1..Len(r) : r[k] \in DigitChars
              /\ r[1] = "0" => Len(r) = 1
    /\ pc = "gen_equations" =>
          LET ps == Patterns(ElementCount, 9)
          IN  \A k \in 1..Len(ps) :
                  LET q == EqualPosition(ps[k])
                  IN  /\ Range(ps[k][1]) \subseteq NonZeroDigitChars
                      /\ Range(ps[k][q - 1]) \subseteq DigitChars
                      /\ \A p \in (q + 1)..Len(ps[k]) : Range(ps[k][p]) \subseteq DigitChars
                      /\ "0" \in Range(ps[k][q + 1]) => Len(ps[k]) = q + 1

\* C9's case: a candidate whose result is the single character 0 was examined
C9_Witness ==
    /\ equation # <<>>
    /\ ResultPart(equation) = <<"0">>
    /\ ExpressionPart(equation)[1] \in NonZeroDigitChars

\* The number of strings in the Cartesian product of the alphabets from the k-th on
RECURSIVE SizeFrom(_, _)
SizeFrom(pattern, k) ==
    IF k > Len(pattern) THEN 1 ELSE Len(pattern[k]) * SizeFrom(pattern, k + 1)

\* The r-th string, from 0, of the Cartesian product in the order in which
\* the leftmost position varies slowest
Element(pattern, r) ==
    [k \in 1..Len(pattern) |->
        pattern[k][((r \div SizeFrom(pattern, k + 1)) % Len(pattern[k])) + 1]]

RECURSIVE TotalFrom(_, _)
TotalFrom(ps, k) == IF k > Len(ps) THEN 0 ELSE SizeFrom(ps[k], 1) + TotalFrom(ps, k + 1)

\* C10: the n-th candidate gen_equations examines for a pattern is the n-th
\* string of the Cartesian product of the alphabets, the leftmost position
\* varying slowest, and has as many characters as the mode has elements; the
\* iterator is exhausted exactly when candidates_count candidates, the
\* product of the sizes of the alphabets, were examined; the total examined
\* is the sum of these products, which for the alphabets with all the digits
\* is 289,800 for 6 elements and 72,676,800 for 8.
C10_CartesianProduct ==
    /\ pc = "candidate" =>
          /\ candidates_count = SizeFrom(At(patterns, i), 1)
          /\ progress >= 1 =>
                /\ progress <= candidates_count
                /\ equation = Element(At(patterns, i), progress - 1)
                /\ Len(equation) = ElementCount
          /\ equations = <<>> <=> progress = candidates_count
    /\ pc = "done" =>
          /\ total_expressions_counter = TotalFrom(patterns, 1)
          /\ TotalFrom(Patterns(6, 9), 1) = 289800
          /\ TotalFrom(Patterns(8, 9), 1) = 72676800

\* C10's case: gen_equations has examined every candidate of the regular mode
C10_Witness ==
    /\ pc = "done"
    /\ game_mode = "NERDLE"
    /\ progress = candidates_count
    /\ total_expressions_counter = TotalFrom(patterns, 1)
    /\ total_expressions_counter > 0

\* C11: the run of gen_equations over the patterns of the mode of 6
\* elements, with all the digits, examines 289,800 candidates and writes 206
\* of them: the counters never pass these numbers, and they are the numbers
\* the run ends with, the output holding the header and 206 rows.
C11_MiniCounts ==
    (game_mode = "MINI_NERDLE" /\ patterns = Patterns(6, 9)) =>
        /\ valid_expressions_counter <= 206
        /\ total_expressions_counter <= 289800
        /\ pc \in {"pattern", "candidate", "done"} =>
              Len(output) = 1 + valid_expressions_counter
        /\ pc = "done" =>
              /\ valid_expressions_counter = 206
              /\ total_expressions_counter = 289800

\* C11's case: the run over all the digits has ended, with 206 rows written
C11_Witness ==
    /\ pc = "done"
    /\ game_mode = "MINI_NERDLE"
    /\ patterns = Patterns(6, 9)
    /\ Len(output) = 207
    /\ total_expressions_counter = 289800

\* The place (from 0) of a character in an alphabet
IndexIn(alphabet, c) == (CHOOSE k \in 1..Len(alphabet) : alphabet[k] = c) - 1

\* The place (from 0) of a string among the strings of the Cartesian product
\* of the alphabets, from the k-th position on
RECURSIVE RankFrom(_, _, _)
RankFrom(pattern, str, k) ==
    IF k > Len(pattern) THEN 0
    ELSE IndexIn(pattern[k], str[k]) * SizeFrom(pattern, k + 1) + RankFrom(pattern, str, k + 1)

\* C12: no equation is written twice in a run of gen_equations. The rows of
\* the output after the header are pairwise different; two patterns never
\* have "=" at the same position, and the candidate examined has it where
\* its pattern has it, so that candidates of two patterns differ; no
\* alphabet holds a character twice (those with all the digits included),
\* and the n-th candidate examined for a pattern is the string of rank n - 1
\* in the product, so that each string of the pattern is examined once.
C12_NoDuplicates ==
    pc \notin {"gen_patterns", "gen_equations"} =>
        /\ \A a, b \in 2..Len(output) : a # b => output[a] # output[b]
        /\ \A k, l \in 1..Len(patterns) :
              k # l => EqualPositions(patterns[k]) \cap EqualPositions(patterns[l]) = {}
        /\ \A k \in 1..Len(patterns) : \A p \in 1..Len(patterns[k]) :
              Cardinality(Range(patterns[k][p])) = Len(patterns[k][p])
        /\ (pc = "candidate" /\ progress >= 1) =>
              /\ EqualPositions(At(patterns, i)) = {EqualSign(equation)}
              /\ RankFrom(At(patterns, i), equation, 1) = progress - 1
              /\ \A a \in 2..(Len(output) - 1) : output[a] # equation
        /\ pc = "done" =>
              LET ps == Patterns(ElementCount, 9)
              IN  \A k \in 1..Len(ps) : \A p \in 1..Len(ps[k]) :
                      Cardinality(Range(ps[k][p])) = Len(ps[k][p])

\* C12's case: the run has ended with rows written from two patterns
C12_Witness ==
    /\ pc = "done"
    /\ \E a, b \in 2..Len(output) : EqualSign(output[a]) # EqualSign(output[b])

\* An expression a pattern can produce: 3 to 6 characters, the first a digit
\* 1..9, the last a digit, the others digits or operators
PatternShaped(str) ==
    /\ Len(str) \in 3..6
    /\ str[1] \in NonZeroDigitChars
    /\ str[Len(str)] \in DigitChars
    /\ \A k \in 2..(Len(str) - 1) : str[k] \in DigitChars \cup Operators

\* The concatenation of the strings of a list
RECURSIVE Flatten(_)
Flatten(list) == IF list = <<>> THEN <<>> ELSE Head(list) \o Flatten(Tail(list))

IsOperatorToken(str) == Len(str) = 1 /\ str[1] \in Operators

\* The sections of solve_expression, in the order of the code. Each has one
\* step, which its pc alone enables.
Sections ==
    {"PRE VALIDATION", "JOINING NUMBERS", "JOINING NUMBERS TO OPERATORS",
     "CONVERTING NUMBERS TO INTS", "SOLVING MULTIPLICATIONS AND DIVISIONS",
     "SUMMING ALL ELEMENTS"}

\* What C13 says of the states of a call: for an expression a pattern can
\* produce, solve_expression raises nothing, returns an int or None if it
\* returns, and is in no state from which it cannot go on.
\* Its loops leave what they are to leave: the digit-merging loop the digit
\* runs and the operators of the argument, in turn; the sign-absorption loop
\* no standalone + or -, each joined to the number after it; the
\* multiplication and division loop numbers only, no * or / unresolved.
C13_Sections ==
    (function = "solve_expression" /\ PatternShaped(argument)) =>
        /\ pc # "raised"
        /\ ~IsRaised(returned)
        /\ pc = "returned" => returned.k \in {"int", "None"}
        /\ pc \in Sections \cup {"returned"}
        /\ pc = "JOINING NUMBERS TO OPERATORS" =>
              /\ Flatten(expression) = argument
              /\ Len(expression) % 2 = 1
              /\ \A k \in 1..Len(expression) :
                    IF k % 2 = 1 THEN IsNumeric(expression[k])
                    ELSE IsOperatorToken(expression[k])
        /\ pc = "CONVERTING NUMBERS TO INTS" =>
              /\ Flatten(expression) = argument
              /\ \A k \in 1..Len(expression) :
                    \/ IsIntLiteral(expression[k])
                    \/ expression[k] \in {<<"*">>, <<"/">>}
              /\ IsIntLiteral(expression[1])
              /\ IsIntLiteral(expression[Len(expression)])
        /\ pc = "SOLVING MULTIPLICATIONS AND DIVISIONS" =>
              /\ expression[1].k = "int"
              /\ expression[Len(expression)].k = "int"
              /\ \A k \in 1..Len(expression) :
                    \/ expression[k].k = "int"
                    \/ /\ IsStr(expression[k], <<"*">>) \/ IsStr(expression[k], <<"/">>)
                       /\ expression[k - 1].k = "int"
                       /\ expression[k + 1].k = "int"
        /\ pc = "SUMMING ALL ELEMENTS" =>
              /\ Len(expression) >= 1
              /\ \A k \in 1..Len(expression) : IsNumber(expression[k])

\* How far a call has come: the place of its section in the code, 7 once it
\* has returned
SectionRank(section) ==
    IF section = "PRE VALIDATION" THEN 1
    ELSE IF section = "JOINING NUMBERS" THEN 2
    ELSE IF section = "JOINING NUMBERS TO OPERATORS" THEN 3
    ELSE IF section = "CONVERTING NUMBERS TO INTS" THEN 4
    ELSE IF section = "SOLVING MULTIPLICATIONS AND DIVISIONS" THEN 5
    ELSE IF section = "SUMMING ALL ELEMENTS" THEN 6
    ELSE IF section = "returned" THEN 7
    ELSE 0

\* C13: for every expression a pattern can produce, solve_expression
\* terminates and returns an int or None without raising. In every state of
\* a call C13_Sections holds: no exception, no state the call cannot leave
\* but the return, and the lists the loops are to leave. Every step takes
\* the call further in the code, so that it returns after 6 steps at most.
C13_TerminatesWithoutFault ==
    /\ []C13_Sections
    /\ [][SectionRank(pc') > SectionRank(pc)]_vars

\* C13's case: 12/2*1, an expression of the pattern of 6 positions, went
\* through the three loops and has returned 6
C13_Witness ==
    /\ function = "solve_expression"
    /\ pc = "returned"
    /\ argument = <<"1", "2", "/", "2", "*", "1">>
    /\ PatternShaped(argument)
    /\ returned = IntObj(6)

====
